---------------------------- MODULE Spec2Model ----------------------------
(***************************************************************************)
(* Model of the `doit` command-line assistant (src/src/main.rs): the `ask` *)
(* command in one-shot mode (ask_once) and chat mode (ask_chat with        *)
(* send_chat_message), with the streaming NDJSON decoder they share.       *)
(*                                                                         *)
(* Text is modelled as sequences of characters.  A byte of the wire and a  *)
(* character of a Rust String are both TLA+ strings: an ASCII byte or      *)
(* character is the one-character string holding it, a byte >= 0x80 is     *)
(* named "xHH", a decoded multi-byte character is named by the bytes that  *)
(* encode it ("xC3xA9" is U+00E9) and U+FFFD is named "uFFFD".             *)
(***************************************************************************)
EXTENDS Naturals, Sequences, FiniteSets, TLC

-----------------------------------------------------------------------------
(* Characters and strings                                                  *)

\* U+FFFD REPLACEMENT CHARACTER, what String::from_utf8_lossy substitutes.
REPLACEMENT == "uFFFD"

\* Lead bytes of the two- and three-byte UTF-8 sequences the inputs use, and
\* the continuation bytes (0x80..0xBF) they use.
Lead2Bytes == {"xC3"}
Lead3Bytes == {"xE2"}
ContBytes == {"xA9", "x82", "xAC"}

\* char::is_whitespace, on the characters the inputs use.
IsWhitespace(c) == c \in {" ", "\t", "\n", "\r"}

RECURSIVE Concat(_)
\* Concatenation of a sequence of strings (String::push_str in a loop).
Concat(ss) == IF ss = <<>> THEN <<>> ELSE Head(ss) \o Concat(Tail(ss))

RECURSIVE TrimStart(_)
\* str::trim_start.
TrimStart(s) ==
  IF s # <<>> /\ IsWhitespace(Head(s)) THEN TrimStart(Tail(s)) ELSE s

RECURSIVE TrimEnd(_)
\* str::trim_end.
TrimEnd(s) ==
  IF s # <<>> /\ IsWhitespace(s[Len(s)])
  THEN TrimEnd(SubSeq(s, 1, Len(s) - 1))
  ELSE s

\* A variant of Trim that strips nothing.
TrimNothing(s) == s

\* str::trim: leading and trailing whitespace removed.
Trim(s) == TrimEnd(TrimStart(s))

\* u8::to_ascii_lowercase on a character: only A..Z change.
ToAsciiLower(c) ==
  CASE c = "E" -> "e" [] c = "X" -> "x" [] c = "I" -> "i" [] c = "T" -> "t"
    [] c = "Q" -> "q" [] c = "U" -> "u" [] c = "H" -> "h"
    [] OTHER -> c

\* str::eq_ignore_ascii_case.
EqIgnoreAsciiCase(a, b) ==
  /\ Len(a) = Len(b)
  /\ \A i \in 1..Len(a) : ToAsciiLower(a[i]) = ToAsciiLower(b[i])

\* The position of the first '\n' of s, 0 when there is none
\* (String::find('\n'), None as 0).
FindNewline(s) ==
  IF \E i \in 1..Len(s) : s[i] = "\n"
  THEN CHOOSE i \in 1..Len(s) :
         s[i] = "\n" /\ \A j \in 1..(i - 1) : s[j] # "\n"
  ELSE 0

-----------------------------------------------------------------------------
(* String::from_utf8_lossy                                                 *)

\* The length of the UTF-8 sequence a byte starts: 1 for ASCII, 2 or 3 for a
\* lead byte, 0 for a byte that starts no sequence (a continuation byte).
Utf8Width(b) ==
  IF b \in Lead2Bytes THEN 2
  ELSE IF b \in Lead3Bytes THEN 3
  ELSE IF b \in ContBytes THEN 0
  ELSE 1

\* How many of the bytes at i, i+1, ... (at most want) are continuation bytes.
RECURSIVE ContRun(_, _, _)
ContRun(bytes, i, want) ==
  IF want = 0 \/ i > Len(bytes) \/ bytes[i] \notin ContBytes THEN 0
  ELSE 1 + ContRun(bytes, i + 1, want - 1)

\* The character encoded by the w bytes at i.
RECURSIVE CharAt(_, _, _)
CharAt(bytes, i, w) ==
  IF w = 0 THEN "" ELSE bytes[i] \o CharAt(bytes, i + 1, w - 1)

\* Is the byte at i part of the sequence (whole or truncated) that a lead
\* byte before it starts?  It is when it is a continuation byte that follows
\* a lead byte, or follows the first continuation byte of a three-byte lead.
InSequence(bytes, i) ==
  /\ bytes[i] \in ContBytes
  /\ i > 1
  /\ \/ bytes[i - 1] \in Lead2Bytes \cup Lead3Bytes
     \/ i > 2 /\ bytes[i - 1] \in ContBytes /\ bytes[i - 2] \in Lead3Bytes

\* A variant of the decoder that passes every byte on as it is, without
\* validation.
LossyAtKeepingBytes(bytes, i) == bytes[i]

\* What the decoder emits at byte i: nothing ("") inside a sequence, the
\* byte itself for ASCII, the character for a lead byte with all its
\* continuation bytes, U+FFFD for a truncated sequence or a stray byte.
LossyAt(bytes, i) ==
  IF InSequence(bytes, i) THEN ""
  ELSE IF Utf8Width(bytes[i]) = 1 THEN bytes[i]
  ELSE IF Utf8Width(bytes[i]) = 0 THEN REPLACEMENT
  ELSE IF ContRun(bytes, i + 1, Utf8Width(bytes[i]) - 1) = Utf8Width(bytes[i]) - 1
    THEN CharAt(bytes, i, Utf8Width(bytes[i]))
  ELSE REPLACEMENT

\* String::from_utf8_lossy(&chunk): valid sequences decode to their character;
\* each maximal invalid or truncated part becomes one U+FFFD.
FromUtf8Lossy(bytes) ==
  SelectSeq([i \in 1..Len(bytes) |-> LossyAt(bytes, i)], LAMBDA c : c # "")

-----------------------------------------------------------------------------
(* serde_json::from_str: the JSON grammar                                  *)
(*                                                                         *)
(* A JSON value is [t |-> kind, v |-> payload]: "null", "bool" (a          *)
(* BOOLEAN), "num" (its digits), "str" (its characters, escapes resolved), *)
(* "arr" (its elements), "obj" (its members [k, v], in order).  Numbers    *)
(* are integers and the escapes are \" \\ \/ \n \t \r: the inputs use no   *)
(* fraction, exponent, \b, \f or \uXXXX.                                   *)

JNull == [t |-> "null", v |-> <<>>]
JFail == [ok |-> FALSE, pos |-> 0, val |-> JNull]
JOk(p, val) == [ok |-> TRUE, pos |-> p, val |-> val]

\* The whitespace JSON allows between tokens.
IsJsonWs(c) == c \in {" ", "\t", "\n", "\r"}

IsDigit(c) == c \in {"0", "1", "2", "3", "4", "5", "6", "7", "8", "9"}

RECURSIVE SkipWs(_, _)
SkipWs(s, i) == IF i <= Len(s) /\ IsJsonWs(s[i]) THEN SkipWs(s, i + 1) ELSE i

RECURSIVE SkipDigits(_, _)
SkipDigits(s, i) == IF i <= Len(s) /\ IsDigit(s[i]) THEN SkipDigits(s, i + 1) ELSE i

\* Does s hold word at position i?
Matches(s, i, word) ==
  /\ i + Len(word) - 1 <= Len(s)
  /\ SubSeq(s, i, i + Len(word) - 1) = word

\* The character an escape \c stands for.
Unescape(c) ==
  CASE c = "n" -> "\n" [] c = "t" -> "\t" [] c = "r" -> "\r" [] OTHER -> c

RECURSIVE ScanString(_, _, _)
\* The string whose opening quote precedes position j; acc is what was read.
ScanString(s, j, acc) ==
  IF j > Len(s) THEN JFail
  ELSE IF s[j] = "\"" THEN JOk(j + 1, [t |-> "str", v |-> acc])
  ELSE IF s[j] = "\\" THEN
    IF j + 1 <= Len(s) /\ s[j + 1] \in {"\"", "\\", "/", "n", "t", "r"}
    THEN ScanString(s, j + 2, Append(acc, Unescape(s[j + 1])))
    ELSE JFail
  ELSE IF s[j] \in {"\n", "\t", "\r"} THEN JFail
  ELSE ScanString(s, j + 1, Append(acc, s[j]))

\* An integer at position i ("-"? then "0" or a digit 1..9 and more digits).
ParseNumber(s, i) ==
  LET j == IF s[i] = "-" THEN i + 1 ELSE i
      e == IF s[j] = "0" THEN j + 1 ELSE SkipDigits(s, j)
  IN IF j > Len(s) \/ ~IsDigit(s[j]) THEN JFail
     ELSE JOk(e, [t |-> "num", v |-> SubSeq(s, i, e - 1)])

RECURSIVE ParseValue(_, _)
RECURSIVE ParseMembers(_, _, _)
RECURSIVE ParseElements(_, _, _)

\* After a member's value: "}" ends the object, "," announces a member.
MemberEnd(s, more, e) ==
  IF e > Len(s) THEN JFail
  ELSE IF s[e] = "}" THEN JOk(e + 1, [t |-> "obj", v |-> more])
  ELSE IF s[e] = "," THEN ParseMembers(s, SkipWs(s, e + 1), more)
  ELSE JFail

\* A member whose key and value were read.
MemberAfterValue(s, acc, key, val) ==
  IF ~val.ok THEN JFail
  ELSE MemberEnd(s, Append(acc, [k |-> key, v |-> val.val]), SkipWs(s, val.pos))

\* A member whose key was read: ":" and the value follow at c.
MemberAfterKey(s, acc, key, c) ==
  IF c > Len(s) \/ s[c] # ":" THEN JFail
  ELSE MemberAfterValue(s, acc, key, ParseValue(s, c + 1))

\* A member whose key string was scanned.
MemberKey(s, acc, key) ==
  IF ~key.ok THEN JFail
  ELSE MemberAfterKey(s, acc, key.val.v, SkipWs(s, key.pos))

\* The members of an object from position i (whitespace skipped) on.
ParseMembers(s, i, acc) ==
  IF i > Len(s) \/ s[i] # "\"" THEN JFail
  ELSE MemberKey(s, acc, ScanString(s, i + 1, <<>>))

\* After an element: "]" ends the array, "," announces an element.
ElementEnd(s, more, e) ==
  IF e > Len(s) THEN JFail
  ELSE IF s[e] = "]" THEN JOk(e + 1, [t |-> "arr", v |-> more])
  ELSE IF s[e] = "," THEN ParseElements(s, e + 1, more)
  ELSE JFail

\* An element that was read.
ElementAfterValue(s, acc, val) ==
  IF ~val.ok THEN JFail
  ELSE ElementEnd(s, Append(acc, val.val), SkipWs(s, val.pos))

\* The elements of an array from position i on.
ParseElements(s, i, acc) == ElementAfterValue(s, acc, ParseValue(s, i))

\* The value that starts at position i, which holds no whitespace; j is the
\* first position after i that holds none.
ValueAt(s, i, j) ==
  IF i > Len(s) THEN JFail
  ELSE IF s[i] = "{" THEN
    IF j <= Len(s) /\ s[j] = "}" THEN JOk(j + 1, [t |-> "obj", v |-> <<>>])
    ELSE ParseMembers(s, j, <<>>)
  ELSE IF s[i] = "[" THEN
    IF j <= Len(s) /\ s[j] = "]" THEN JOk(j + 1, [t |-> "arr", v |-> <<>>])
    ELSE ParseElements(s, j, <<>>)
  ELSE IF s[i] = "\"" THEN ScanString(s, i + 1, <<>>)
  ELSE IF Matches(s, i, <<"t", "r", "u", "e">>)
    THEN JOk(i + 4, [t |-> "bool", v |-> TRUE])
  ELSE IF Matches(s, i, <<"f", "a", "l", "s", "e">>)
    THEN JOk(i + 5, [t |-> "bool", v |-> FALSE])
  ELSE IF Matches(s, i, <<"n", "u", "l", "l">>) THEN JOk(i + 4, JNull)
  ELSE IF s[i] = "-" \/ IsDigit(s[i]) THEN ParseNumber(s, i)
  ELSE JFail

\* The value at the first position from i0 on that holds no whitespace.
ValueFrom(s, i) == ValueAt(s, i, SkipWs(s, i + 1))

\* One JSON value from position i0 on, leading whitespace allowed.
ParseValue(s, i0) == ValueFrom(s, SkipWs(s, i0))

\* A value that was read must be followed by whitespace only.
DocumentEnd(s, r) ==
  IF r.ok /\ SkipWs(s, r.pos) > Len(s) THEN r ELSE JFail

\* serde_json::from_str::<serde_json::Value>: one value, then only whitespace.
ParseDocument(s) == DocumentEnd(s, ParseValue(s, 1))

-----------------------------------------------------------------------------
(* The derived Deserialize of Message, ChatResponse and GenerateResponse   *)
(*                                                                         *)
(* A struct is read from an object (every field exactly once, of its type; *)
(* unknown members are ignored) or from an array of its fields in order.   *)

K_message == <<"m", "e", "s", "s", "a", "g", "e">>
K_role == <<"r", "o", "l", "e">>
K_content == <<"c", "o", "n", "t", "e", "n", "t">>
K_done == <<"d", "o", "n", "e">>
K_response == <<"r", "e", "s", "p", "o", "n", "s", "e">>

\* The values of the members hits, in order.
ValuesOf(hits) == [n \in 1..Len(hits) |-> hits[n].v]

\* The values an object gives a key, in order.
FieldValues(obj, key) == ValuesOf(SelectSeq(obj.v, LAMBDA m : m.k = key))

NoFields == [ok |-> FALSE, f1 |-> JNull, f2 |-> JNull]

\* A struct's fields from the values a and b an object gives its two keys:
\* a missing or duplicated field is an error.
OnceEach(a, b) ==
  IF Len(a) = 1 /\ Len(b) = 1 THEN [ok |-> TRUE, f1 |-> a[1], f2 |-> b[1]]
  ELSE NoFields

\* The two fields of a struct: from an object's members or an array's elements.
StructFields(val, key1, key2) ==
  IF val.t = "obj"
  THEN OnceEach(FieldValues(val, key1), FieldValues(val, key2))
  ELSE IF val.t = "arr" /\ Len(val.v) = 2
    THEN [ok |-> TRUE, f1 |-> val.v[1], f2 |-> val.v[2]]
  ELSE NoFields

NoRecord == [ok |-> FALSE, content |-> <<>>, done |-> FALSE]

\* Message { role: String, content: String } from its two fields.
MessageOf(f) ==
  IF f.ok /\ f.f1.t = "str" /\ f.f2.t = "str"
  THEN [ok |-> TRUE, content |-> f.f2.v, done |-> FALSE]
  ELSE NoRecord

\* The derived Deserialize of Message.
DecodeMessage(val) == MessageOf(StructFields(val, K_role, K_content))

\* ChatResponse from its decoded message and its `done` value.
ChatResponseOf(message, done) ==
  IF message.ok /\ done.t = "bool"
  THEN [ok |-> TRUE, content |-> message.content, done |-> done.v]
  ELSE NoRecord

\* ChatResponse { message: Message, done: bool } from its two fields.
ChatResponseFields(f) ==
  IF f.ok THEN ChatResponseOf(DecodeMessage(f.f1), f.f2) ELSE NoRecord

\* GenerateResponse { response: String, done: bool } from its two fields.
GenerateResponseFields(f) ==
  IF f.ok /\ f.f1.t = "str" /\ f.f2.t = "bool"
  THEN [ok |-> TRUE, content |-> f.f1.v, done |-> f.f2.v]
  ELSE NoRecord

ChatResponseDoc(doc) ==
  IF doc.ok THEN ChatResponseFields(StructFields(doc.val, K_message, K_done))
  ELSE NoRecord

GenerateResponseDoc(doc) ==
  IF doc.ok THEN GenerateResponseFields(StructFields(doc.val, K_response, K_done))
  ELSE NoRecord

\* serde_json::from_str::<ChatResponse>(line)
DecodeChat(line) == ChatResponseDoc(ParseDocument(line))

\* A variant of ask_once's decoding that reads the line as a ChatResponse.
DecodeGenerateAsChatResponse(line) == DecodeChat(line)

\* serde_json::from_str::<GenerateResponse>(line)
DecodeGenerate(line) == GenerateResponseDoc(ParseDocument(line))

\* The decoder of the active mode.
Decode(chatMode, line) ==
  IF chatMode THEN DecodeChat(line) ELSE DecodeGenerate(line)

-----------------------------------------------------------------------------
(* The streaming loop shared by send_chat_message and ask_once             *)

\* What the loop prints after a record with done = true:
\* println!("\n") in send_chat_message, println!() in ask_once.
FinalNewline(chatMode) == IF chatMode THEN <<"\n", "\n">> ELSE <<"\n">>

\* What the loop does, in order, is kept as a sequence of events:
\* "decode" (from_str on a line), "print" (print! of a fragment), "flush"
\* (io::stdout().flush()) and "println" (the final newline).
Event(op, text) == [op |-> op, text |-> text]

\* A variant of the printing of a fragment that leaves it unflushed.
FragmentEventsNoFlush(response) == << Event("print", response.content) >>

\* print!("{}", fragment) and then io::stdout().flush()?.
FragmentEvents(response) ==
  << Event("print", response.content), Event("flush", <<>>) >>

\* println!("\n") / println!() after a record with done = true.
FinalEvents(chatMode, response) ==
  IF response.done THEN << Event("println", FinalNewline(chatMode)) >>
  ELSE <<>>

\* A variant of the body of `if let Ok(response)` that prints the fragment
\* and does not keep it.
HandleRecordNoAccumulate(chatMode, st, response) ==
  [st EXCEPT !.printed = @ \o response.content
                 \o (IF response.done THEN FinalNewline(chatMode) ELSE <<>>),
             !.records = Append(@, [content |-> response.content,
                                    done |-> response.done]),
             !.trace = @ \o FragmentEvents(response)
                 \o FinalEvents(chatMode, response)]

\* The body of `if let Ok(response)`: print!, flush, push_str (chat mode
\* only: ask_once keeps no full_response), and the final newline when done.
HandleRecord(chatMode, st, response) ==
  [st EXCEPT !.printed = @ \o response.content
                 \o (IF response.done THEN FinalNewline(chatMode) ELSE <<>>),
             !.full_response =
                 IF chatMode THEN @ \o response.content ELSE @,
             !.records = Append(@, [content |-> response.content,
                                    done |-> response.done]),
             !.trace = @ \o FragmentEvents(response)
                 \o FinalEvents(chatMode, response)]

\* A variant of the handling of a line that fails to decode: the raw line is
\* shown to the user instead of being skipped.
HandleMalformedEcho(chatMode, st, json_str) ==
  [st EXCEPT !.printed = @ \o json_str]

\* serde_json::from_str is called on the line json_str.
Decoding(st, json_str) ==
  [st EXCEPT !.trace = Append(@, Event("decode", json_str))]

\* A line that fails to decode is skipped: nothing is printed or accumulated.
HandleMalformed(chatMode, st, json_str) == st

RECURSIVE Drain(_, _)

\* A line that is not blank, with what decoding it gave.
HandleDecoded(chatMode, taken, json_str, response) ==
  IF response.ok THEN
    IF response.done THEN HandleRecord(chatMode, taken, response)
    ELSE Drain(chatMode, HandleRecord(chatMode, taken, response))
  ELSE Drain(chatMode, HandleMalformed(chatMode, taken, json_str))

\* A line taken out of the buffer: blank lines are skipped.
HandleLine(chatMode, taken, json_str) ==
  IF Trim(json_str) = <<>> THEN Drain(chatMode, taken)
  ELSE HandleDecoded(chatMode, Decoding(taken, json_str), json_str,
                     Decode(chatMode, json_str))

\* The inner loop with the result of buffer.find('\n').
DrainAt(chatMode, st, newline_pos) ==
  IF newline_pos = 0 THEN st
  ELSE HandleLine(chatMode,
                  [st EXCEPT !.buffer = SubSeq(@, newline_pos + 1, Len(@))],
                  SubSeq(st.buffer, 1, newline_pos - 1))

\* `while let Some(newline_pos) = buffer.find('\n')`: takes the complete lines
\* out of the buffer one by one, up to and including the first record with
\* done = true (`break` leaves this loop only).
Drain(chatMode, st) == DrainAt(chatMode, st, FindNewline(st.buffer))

\* One iteration of `while let Some(chunk_result) = stream.next().await` on
\* a chunk that arrived: from_utf8_lossy, push_str, then the inner loop.
Feed(chatMode, st, chunk) ==
  Drain(chatMode, [st EXCEPT !.buffer = @ \o FromUtf8Lossy(chunk)])

RECURSIVE FeedAll(_, _, _)

\* The chunk loop on the chunks that arrived, in order.
FeedAll(chatMode, st, chunks) ==
  IF chunks = <<>> THEN st
  ELSE FeedAll(chatMode, Feed(chatMode, st, Head(chunks)), Tail(chunks))

\* A variant of the start of an exchange that finds text left behind.
StaleStream ==
  [buffer |-> <<"{">>, full_response |-> <<"x">>, printed |-> <<>>,
   records |-> <<>>, trace |-> <<>>]

\* The loop's state when send_chat_message / ask_once starts streaming.
EmptyStream ==
  [buffer |-> <<>>, full_response |-> <<>>, printed |-> <<>>, records |-> <<>>,
   trace |-> <<>>]

-----------------------------------------------------------------------------
(* Texts of the program                                                    *)

\* "You are a helpful assistant. Here are the user's tasks:\n"
SystemPrefix ==
  <<"Y", "o", "u", " ", "a", "r", "e", " ", "a", " ", "h", "e", "l", "p",
    "f", "u", "l", " ", "a", "s", "s", "i", "s", "t", "a", "n", "t", ".",
    " ", "H", "e", "r", "e", " ", "a", "r", "e", " ", "t", "h", "e", " ",
    "u", "s", "e", "r", "'", "s", " ", "t", "a", "s", "k", "s", ":", "\n">>

\* "\n\nQuestion: "
QuestionPrefix ==
  <<"\n", "\n", "Q", "u", "e", "s", "t", "i", "o", "n", ":", " ">>

\* println!("Error: Please provide a question")
EmptyQuestionMessage ==
  <<"E", "r", "r", "o", "r", ":", " ", "P", "l", "e", "a", "s", "e", " ",
    "p", "r", "o", "v", "i", "d", "e", " ", "a", " ", "q", "u", "e", "s",
    "t", "i", "o", "n", "\n">>

\* println!("\nType your follow-up questions, or 'exit' to quit.\n")
FollowUpBanner ==
  <<"\n", "T", "y", "p", "e", " ", "y", "o", "u", "r", " ", "f", "o", "l",
    "l", "o", "w", "-", "u", "p", " ", "q", "u", "e", "s", "t", "i", "o",
    "n", "s", ",", " ", "o", "r", " ", "'", "e", "x", "i", "t", "'", " ",
    "t", "o", " ", "q", "u", "i", "t", ".", "\n", "\n">>

\* print!("> ")
PromptSymbol == <<">", " ">>

\* println!("Goodbye!")
Goodbye ==
  <<"G", "o", "o", "d", "b", "y", "e", "!", "\n">>

KW_exit == <<"e", "x", "i", "t">>
KW_quit == <<"q", "u", "i", "t">>

\* "[]".to_string()
EmptyArrayText == <<"[", "]">>

\* load_tasks_as_json: the file's text when it reads and is valid JSON,
\* "[]" otherwise.  file is [exists, data].
load_tasks_as_json(file) ==
  IF file.exists /\ ParseDocument(file.data).ok THEN file.data
  ELSE EmptyArrayText

\* The system message ask_chat starts the history with.
SystemMessage(tasks_json) ==
  [role |-> "system", content |-> SystemPrefix \o tasks_json]

\* `let mut messages = vec![...]` of ask_chat.
InitialMessages(initial_prompt, tasks_json) ==
  << SystemMessage(tasks_json),
     [role |-> "user", content |-> initial_prompt] >>

\* A variant of the chat request that carries the newest message only.
ChatRequestLastOnly(msgs) ==
  [endpoint |-> "/api/chat", model |-> "llama3.2", stream |-> TRUE,
   messages |-> <<msgs[Len(msgs)]>>, prompt |-> <<>>]

\* The request send_chat_message posts: the whole history, copied.
ChatRequest(msgs) ==
  [endpoint |-> "/api/chat", model |-> "llama3.2", stream |-> TRUE,
   messages |-> msgs, prompt |-> <<>>]

\* The request ask_once posts.
GenerateRequest(question, tasks_json) ==
  [endpoint |-> "/api/generate", model |-> "llama3.2", stream |-> TRUE,
   messages |-> <<>>,
   prompt |-> SystemPrefix \o tasks_json \o QuestionPrefix \o question]

\* A variant of the exit test that knows "exit" only.
IsExitKeywordExitOnly(user_input) == EqIgnoreAsciiCase(user_input, KW_exit)

\* user_input.eq_ignore_ascii_case("exit") || ...("quit")
IsExitKeyword(user_input) ==
  EqIgnoreAsciiCase(user_input, KW_exit) \/ EqIgnoreAsciiCase(user_input, KW_quit)

-----------------------------------------------------------------------------
(* Inputs: what the server may send                                        *)

\* A JSON string literal holding the characters cs (none needs an escape).
JsonString(cs) == <<"\"">> \o cs \o <<"\"">>

JsonBool(b) ==
  IF b THEN <<"t", "r", "u", "e">> ELSE <<"f", "a", "l", "s", "e">>

\* A line of /api/chat: {"message":{"role":R,"content":C},"done":D}
ChatLine(role, content, done) ==
  <<"{">> \o JsonString(K_message) \o <<":", "{">>
    \o JsonString(K_role) \o <<":">> \o JsonString(role) \o <<",">>
    \o JsonString(K_content) \o <<":">> \o JsonString(content) \o <<"}", ",">>
    \o JsonString(K_done) \o <<":">> \o JsonBool(done) \o <<"}">>

\* A line of /api/generate: {"response":C,"done":D}
GenerateLine(content, done) ==
  <<"{">> \o JsonString(K_response) \o <<":">> \o JsonString(content) \o <<",">>
    \o JsonString(K_done) \o <<":">> \o JsonBool(done) \o <<"}">>

\* A well-formed record of the active mode.
RecordLine(chatMode, content, done) ==
  IF chatMode THEN ChatLine(<<"a">>, content, done)
  ELSE GenerateLine(content, done)

NL == <<"\n">>

\* The bytes of U+00E9 and of U+20AC in UTF-8.
EAcuteBytes == <<"xC3", "xA9">>
EuroBytes == <<"xE2", "x82", "xAC">>

\* Lines that do not decode: invalid JSON, a missing field, a wrong type.
BadJsonLine == <<"{", "\"", "d", "o">>
MissingFieldLine == <<"{">> \o JsonString(K_done) \o <<":">> \o JsonBool(FALSE) \o <<"}">>
WrongTypeLine(chatMode) ==
  <<"{">> \o JsonString(IF chatMode THEN K_message ELSE K_response)
    \o <<":", "1", ",">> \o JsonString(K_done) \o <<":">> \o JsonBool(FALSE) \o <<"}">>

MalformedLines(chatMode) ==
  {BadJsonLine, MissingFieldLine, WrongTypeLine(chatMode)}

\* Well-formed NDJSON bodies: every line a record, done = true on the last
\* line only.  Their fragments in order, one per line.
WellFormedFragments ==
  { << <<"H">>, <<"i">> >>,
    << EAcuteBytes >>,
    << <<"a">>, EuroBytes \o <<"b">> >> }

RECURSIVE WellFormedBody(_, _)
WellFormedBody(chatMode, frags) ==
  IF frags = <<>> THEN <<>>
  ELSE RecordLine(chatMode, Head(frags), Len(frags) = 1) \o NL
         \o WellFormedBody(chatMode, Tail(frags))

\* Bodies with one malformed line between two valid records.
MalformedBodies(chatMode) ==
  { RecordLine(chatMode, <<"a">>, FALSE) \o NL \o bad \o NL
      \o RecordLine(chatMode, <<"b">>, TRUE) \o NL : bad \in MalformedLines(chatMode) }

\* Other bodies a server may send: a record after the terminal one, an
\* unterminated last record, blank lines, no terminal record, nothing.
OtherBodies(chatMode) ==
  { RecordLine(chatMode, <<"a">>, TRUE) \o NL \o RecordLine(chatMode, <<"b">>, TRUE) \o NL,
    RecordLine(chatMode, <<"a">>, FALSE) \o NL \o RecordLine(chatMode, <<"b">>, TRUE),
    NL \o <<" ">> \o NL \o RecordLine(chatMode, <<"a">>, TRUE) \o NL,
    RecordLine(chatMode, <<"a">>, FALSE) \o NL,
    <<>> }

\* The response bodies of the split specification.
Bodies(chatMode) ==
  { WellFormedBody(chatMode, f) : f \in WellFormedFragments }
    \cup MalformedBodies(chatMode) \cup OtherBodies(chatMode)

\* The example of the comment in send_chat_message: three chunks whose
\* message objects carry content and no role.
ExampleChunk1 ==
  <<"{", "\"", "m", "e", "s", "s", "a", "g", "e", "\"", ":", "{", "\"", "c",
    "o", "n", "t", "e", "n", "t", "\"", ":", "\"", "H", "e", "l", "\"", "}",
    ",", "\"", "d", "o">>
ExampleChunk2 ==
  <<"n", "e", "\"", ":", "f", "a", "l", "s", "e", "}", "\n", "{", "\"", "m",
    "e", "s", "s", "a", "g", "e", "\"", ":", "{", "\"", "c", "o", "n", "t",
    "e", "n", "t", "\"", ":", "\"", "l", "o", "\"", "}", ",", "\"", "d", "o",
    "n", "e", "\"", ":", "f", "a", "l", "s", "e", "}", "\n">>
ExampleChunk3 ==
  <<"{", "\"", "m", "e", "s", "s", "a", "g", "e", "\"", ":", "{", "\"", "c",
    "o", "n", "t", "e", "n", "t", "\"", ":", "\"", "\"", "}", ",", "\"", "d",
    "o", "n", "e", "\"", ":", "t", "r", "u", "e", "}", "\n">>
ExampleChunks == <<ExampleChunk1, ExampleChunk2, ExampleChunk3>>

\* The same three records as the server sends them, each message with its
\* role, cut at the same places.
RoleChunks(chatMode) ==
  LET l1 == RecordLine(chatMode, <<"H", "e", "l">>, FALSE)
      l2 == RecordLine(chatMode, <<"l", "o">>, FALSE)
      l3 == RecordLine(chatMode, <<>>, TRUE)
  IN << SubSeq(l1, 1, Len(l1) - 10),
        SubSeq(l1, Len(l1) - 9, Len(l1)) \o NL \o l2 \o NL,
        l3 \o NL >>

\* The chunk sequences of the session specification, in the shape of the
\* active mode.
ScriptList(chatMode) ==
  << ExampleChunks,
     RoleChunks(chatMode),
     << RecordLine(chatMode, <<"n", "o">>, FALSE) \o NL >>,
     << RecordLine(chatMode, <<"o">>, FALSE) \o NL \o BadJsonLine \o NL,
        RecordLine(chatMode, <<"k">>, TRUE) \o NL >>,
     <<>> >>

Scripts(chatMode) ==
  LET list == ScriptList(chatMode) IN { list[i] : i \in DOMAIN list }

-----------------------------------------------------------------------------
(* Inputs: the command line, the tasks file and the terminal               *)

BlankPrompts == { <<>>, <<" ", "\t">> }
Prompts == BlankPrompts \cup { <<"h", "i">>, <<" ", "h", "i">>, KW_exit }

NoFile == [exists |-> FALSE, data |-> <<>>]
Files ==
  { NoFile,
    [exists |-> TRUE, data |-> <<"[", "{", "\"", "i", "d", "\"", ":", "1", "}", "]">>],
    [exists |-> TRUE, data |-> <<"[", "{">>] }

\* Lines read_line can return that are an exit keyword once trimmed.
ExitInputs ==
  { <<"e", "x", "i", "t", "\n">>,
    <<"E", "X", "I", "T", "\n">>,
    <<" ", "Q", "u", "i", "t", " ", "\r", "\n">> }

\* Lines that are empty once trimmed; <<>> is what read_line leaves at
\* end of input.
EmptyInputs == { <<"\n">>, <<" ", "\t", "\n">>, <<>> }

QuestionInputs == { <<"o", "k", "\n">>, <<" ", "e", "x", "i", "t", "s", "\n">> }

Inputs == ExitInputs \cup EmptyInputs \cup QuestionInputs

-----------------------------------------------------------------------------
(* State                                                                   *)

\* Bounds of the model.
MaxReads == 2
MaxChunks == 3

VARIABLES
  command,        \* cli.command: "ask", "add", "done" or "remove"; "" when
                  \* no command has been given yet
  prompt,         \* the PROMPT argument of `ask`
  chat,           \* the --chat flag
  file,           \* tasks.json: [exists, data]
  pc,             \* where the program is: "main", "connect" (send().await),
                  \* "stream" (stream.next().await), "input" (read_line),
                  \* "exit"
  status,         \* "running", "ok" (main returned Ok), "err" (returned Err)
                  \* or "panic" (the process panicked)
  messages,       \* ask_chat's conversation history
  requests,       \* every request posted so far, in order
  wire,           \* the chunks of the response body still to arrive
  buffer,         \* the streaming loop's `buffer`
  full_response,  \* send_chat_message's `full_response`
  stdout,         \* everything written to standard output
  reads,          \* how many times read_line has returned
  last_input,     \* the line the last read_line returned
  sent,           \* history: the whole body of the current response
  printed,        \* history: what the streaming loop of this exchange printed
  records,        \* history: the records this exchange decoded, in order
  nchunks,        \* history: the chunks of this exchange received so far
  trace,          \* history: the events of this exchange's loop, in order
  transport       \* history: "up", or "failed" once send or a chunk read
                  \* returned Err

vars ==
  << command, prompt, chat, file, pc, status, messages, requests, wire, buffer,
     full_response, stdout, reads, last_input, sent, printed, records, nchunks,
     trace, transport >>

inputVars == << command, prompt, chat, file >>
streamVars ==
  << wire, buffer, full_response, sent, printed, records, nchunks, trace >>

\* The state of the program when main starts with the `ask` command parsed.
Init ==
  /\ command = "ask"
  /\ prompt \in Prompts
  /\ chat \in BOOLEAN
  /\ file \in Files
  /\ pc = "main"
  /\ status = "running"
  /\ messages = <<>>
  /\ requests = <<>>
  /\ wire = <<>>
  /\ buffer = <<>>
  /\ full_response = <<>>
  /\ stdout = <<>>
  /\ reads = 0
  /\ last_input = <<>>
  /\ sent = <<>>
  /\ printed = <<>>
  /\ records = <<>>
  /\ nchunks = 0
  /\ trace = <<>>
  /\ transport = "up"

-----------------------------------------------------------------------------
(* Steps of the program, each from one suspension point to the next        *)

\* A variant of the emptiness test that does not trim.
IsBlankUntrimmed(text) == text = <<>>

\* prompt.trim().is_empty() / user_input.trim().is_empty()
IsBlank(text) == Trim(text) = <<>>

\* ask_chat / ask_once up to the first send().await.
Asked(tasks_json) ==
  /\ messages' = IF chat THEN InitialMessages(prompt, tasks_json) ELSE messages
  /\ requests' = Append(requests,
                        IF chat THEN ChatRequest(messages')
                        ELSE GenerateRequest(prompt, tasks_json))

\* main, Commands::Ask: reject an empty question, else load the tasks and
\* enter ask_chat or ask_once up to its first send().await.
AskStart ==
  /\ pc = "main"
  /\ IF IsBlank(prompt)
     THEN /\ stdout' = stdout \o EmptyQuestionMessage
          /\ pc' = "exit"
          /\ status' = "ok"
          /\ UNCHANGED << messages, requests >>
     ELSE /\ Asked(load_tasks_as_json(file))
          /\ pc' = "connect"
          /\ UNCHANGED << stdout, status >>
  /\ UNCHANGED << inputVars, streamVars, reads, last_input, transport >>

\* A variant of the failure handling that goes back to the prompt.
AfterFailureRetry == "input"

\* Where a transport error leaves the program: `?` returns it from
\* send_chat_message / ask_once, from ask_chat, from ask_ai and from main.
AfterFailure == "exit"

\* A variant of main that drops the result of ask_ai and returns Ok.
MainResultDiscarded(result) == "ok"

\* What main returns when ask_ai returned result: `ask_ai(..).await?` hands
\* an Err on as main's own, and so the process exits non-zero.
MainResult(result) == result

\* send().await returns Err: `?` carries it out of main.
SendFails ==
  /\ pc = "connect"
  /\ pc' = AfterFailure
  /\ status' = MainResult("err")
  /\ transport' = "failed"
  /\ UNCHANGED << inputVars, streamVars, messages, requests, stdout, reads,
                  last_input >>

\* send().await returns the response: the loop's variables are created.
SendOk(body) ==
  /\ pc = "connect"
  /\ pc' = "stream"
  /\ wire' = body
  /\ sent' = Concat(body)
  /\ buffer' = EmptyStream.buffer
  /\ full_response' = EmptyStream.full_response
  /\ printed' = EmptyStream.printed
  /\ records' = EmptyStream.records
  /\ trace' = EmptyStream.trace
  /\ nchunks' = 0
  /\ UNCHANGED << inputVars, status, messages, requests, stdout, reads,
                  last_input, transport >>

\* The loop's variables after a chunk; rest is what is still to arrive.
Received(st, rest) ==
  /\ buffer' = st.buffer
  /\ full_response' = st.full_response
  /\ records' = st.records
  /\ trace' = st.trace
  /\ printed' = printed \o st.printed
  /\ stdout' = stdout \o st.printed
  /\ wire' = rest
  /\ nchunks' = nchunks + 1
  /\ UNCHANGED << inputVars, pc, status, messages, requests, reads,
                  last_input, sent, transport >>

\* The loop body on a chunk that arrived.
Receive(chunk, rest) ==
  Received(Feed(chat,
                [buffer |-> buffer, full_response |-> full_response,
                 printed |-> <<>>, records |-> records, trace |-> trace],
                chunk),
           rest)

\* stream.next().await yields the next chunk of the body.
RecvChunk ==
  /\ pc = "stream"
  /\ wire # <<>>
  /\ Receive(Head(wire), Tail(wire))

\* stream.next().await yields only the first k bytes of what is on the wire.
RecvPart(k) ==
  /\ pc = "stream"
  /\ wire # <<>>
  /\ nchunks + 2 <= MaxChunks
  /\ k \in 1..(Len(Head(wire)) - 1)
  /\ Receive(SubSeq(Head(wire), 1, k),
             <<SubSeq(Head(wire), k + 1, Len(Head(wire)))>> \o Tail(wire))

\* stream.next().await yields Err: `?` carries it out of main.
RecvFails ==
  /\ pc = "stream"
  /\ pc' = AfterFailure
  /\ status' = MainResult("err")
  /\ transport' = "failed"
  /\ UNCHANGED << inputVars, streamVars, messages, requests, stdout, reads,
                  last_input >>

\* A variant of the end of a chat exchange that drops the reply.
EndOfChatExchangeDropReply(msgs, reply) == msgs

\* ask_chat after send_chat_message returned: messages.push(ai_response).
EndOfChatExchange(msgs, reply) ==
  Append(msgs, [role |-> "assistant", content |-> reply])

\* The streaming function returns with the loop's state st:
\* send_chat_message returns the assistant Message, ask_chat pushes it,
\* prints the banner after the first exchange and the prompt symbol, and
\* waits in read_line; ask_once returns Ok.
Returned(st) ==
  /\ IF chat
     THEN /\ messages' = EndOfChatExchange(messages, st.full_response)
          /\ stdout' = stdout \o st.printed
                \o (IF Len(requests) = 1 THEN FollowUpBanner ELSE <<>>)
                \o PromptSymbol
          /\ pc' = "input"
          /\ UNCHANGED status
     ELSE /\ pc' = "exit"
          /\ status' = "ok"
          /\ stdout' = stdout \o st.printed
          /\ UNCHANGED messages
  /\ printed' = printed \o st.printed
  /\ records' = st.records
  /\ trace' = st.trace
  /\ buffer' = <<>>
  /\ full_response' = <<>>
  /\ UNCHANGED << inputVars, requests, wire, reads, last_input, sent, nchunks,
                  transport >>

\* A variant of the end of the stream that takes what is left in the
\* buffer for a last line.
AtEndOfStreamDecodeTail(chatMode, st) ==
  Drain(chatMode, [st EXCEPT !.buffer = @ \o NL])

\* The chunk loop is left when stream.next() yields None: what is still in
\* the buffer is dropped with it, nothing more is decoded.
AtEndOfStream(chatMode, st) == st

\* stream.next().await yields None: the loop ends and the function returns.
StreamEnd ==
  /\ pc = "stream"
  /\ wire = <<>>
  /\ Returned(AtEndOfStream(chat,
                [buffer |-> buffer, full_response |-> full_response,
                 printed |-> <<>>, records |-> records, trace |-> trace]))

\* A variant of the push of a user message that keeps the history short:
\* the system message and the new message only.
PushUserMessageForgetting(msgs, user_input) ==
  << msgs[1], [role |-> "user", content |-> user_input] >>

\* messages.push(Message { role: "user", content: user_input.to_string() })
PushUserMessage(msgs, user_input) ==
  Append(msgs, [role |-> "user", content |-> user_input])

\* read_line returns line: trim, the exit test, the empty test, else push
\* the user message and post the whole history.
ReadLine(line) ==
  /\ pc = "input"
  /\ reads < MaxReads
  /\ reads' = reads + 1
  /\ last_input' = line
  /\ LET user_input == Trim(line) IN
       IF IsExitKeyword(user_input)
       THEN /\ stdout' = stdout \o Goodbye
            /\ pc' = "exit"
            /\ status' = "ok"
            /\ UNCHANGED << messages, requests >>
       ELSE IF user_input = <<>>
       THEN /\ stdout' = stdout \o PromptSymbol
            /\ UNCHANGED << pc, status, messages, requests >>
       ELSE /\ messages' = PushUserMessage(messages, user_input)
            /\ requests' = Append(requests, ChatRequest(messages'))
            /\ pc' = "connect"
            /\ UNCHANGED << stdout, status >>
  /\ UNCHANGED << inputVars, streamVars, transport >>

Next ==
  \/ AskStart
  \/ SendFails
  \/ \E body \in Scripts(chat) : SendOk(body)
  \/ RecvChunk
  \/ RecvFails
  \/ StreamEnd
  \/ \E line \in Inputs : ReadLine(line)

Spec == Init /\ [][Next]_vars

-----------------------------------------------------------------------------
(* The split specification: one exchange whose body arrives cut anywhere   *)

\* The body as the chunks still to arrive: one chunk, none for no bytes.
OneChunk(body) == IF body = <<>> THEN <<>> ELSE <<body>>

SplitInit ==
  /\ Init
  /\ prompt = <<"h", "i">>
  /\ file = NoFile

SplitNext ==
  \/ AskStart
  \/ \E body \in Bodies(chat) : SendOk(OneChunk(body))
  \/ \E k \in 1..Len(sent) : RecvPart(k)
  \/ RecvChunk
  \/ StreamEnd

SpecSplit == SplitInit /\ [][SplitNext]_vars

-----------------------------------------------------------------------------
(* Properties                                                              *)

Last(seq) == seq[Len(seq)]

\* The exchange is over: stream.next() returned None and the function that
\* ran the streaming loop has returned.
ExchangeEnded == pc \in {"input", "exit"} /\ status # "err" /\ requests # <<>>

WellFormedBodies(chatMode) ==
  { WellFormedBody(chatMode, f) : f \in WellFormedFragments }

Hello == <<"H", "e", "l", "l", "o">>

\* C1 (as claimed): chunk-split invariance.  For a well-formed NDJSON body,
\* however it was cut into chunks (inside a JSON token, inside a multi-byte
\* character), the records decoded by the end of the exchange are the
\* records decoded when the whole body arrives as one chunk.
C1_ChunkSplitInvariance ==
  (ExchangeEnded /\ sent \in WellFormedBodies(chat))
    => records = Feed(chat, EmptyStream, sent).records

\* C2 (as claimed): turn completion.  For a chat body whose records carry
\* the fragments f and whose last line is the record with done = true,
\* send_chat_message returns the assistant message whose content is the
\* concatenation of the fragments, in order.
C2_TurnCompletion ==
  \A f \in WellFormedFragments :
    (chat /\ pc = "input" /\ sent = WellFormedBody(TRUE, f))
      => Last(messages) =
           [role |-> "assistant", content |-> FromUtf8Lossy(Concat(f))]

\* C3: history ordering.  In chat mode, when N requests have been answered
\* the history holds 1 + 2N messages: the system message built at session
\* start first, then user and assistant messages alternating.
C3_HistoryOrdering ==
  (chat /\ pc = "input")
    => /\ Len(messages) = 1 + 2 * Len(requests)
       /\ messages[1] =
            [role |-> "system",
             content |-> SystemPrefix \o load_tasks_as_json(file)]
       /\ \A i \in 2..Len(messages) :
            messages[i].role = IF i % 2 = 0 THEN "user" ELSE "assistant"

C3_Witness == chat /\ pc = "input" /\ Len(requests) = 2 /\ Len(messages) = 5

\* C4: malformed-line robustness.  For a body with a line that does not
\* decode (invalid JSON, a missing field, a wrong type) between the records
\* "a" and "b", however it is cut: exactly the two records are decoded, in
\* order; output and accumulated text are those of the two records alone;
\* no error is returned.
C4_MalformedLineSkipped ==
  (ExchangeEnded /\ sent \in MalformedBodies(chat))
    => /\ records = << [content |-> <<"a">>, done |-> FALSE],
                       [content |-> <<"b">>, done |-> TRUE] >>
       /\ printed = IF chat THEN <<"a", "b", "\n", "\n">> ELSE <<"a", "b", "\n">>
       /\ chat => Last(messages).content = <<"a", "b">>
       /\ status # "err"

C4_Witness ==
  /\ ExchangeEnded
  /\ sent \in MalformedBodies(chat)
  /\ nchunks = 3
  /\ Len(records) = 2

\* C5 (as claimed): the example.  When the chat body arrives as the three
\* chunks of the example, whose message objects carry no role, the output
\* is "Hello" and a completing newline and the returned assistant message
\* has content "Hello".
C5_ExampleScenario ==
  (chat /\ pc = "input" /\ nchunks = 3 /\ sent = Concat(ExampleChunks))
    => /\ printed \in { Hello \o <<"\n">>, Hello \o <<"\n", "\n">> }
       /\ Last(messages) = [role |-> "assistant", content |-> Hello]

\* C6: exit keyword.  A line that is "exit" or "quit" once trimmed, in any
\* letter case, ends the loop; the step appends no message and posts no
\* request, and none follows.
C6_ExitKeyword ==
  [][ /\ (pc = "input" /\ reads' = reads + 1 /\ last_input' \in ExitInputs)
         => (pc' = "exit" /\ status' = "ok"
             /\ messages' = messages /\ requests' = requests)
      /\ pc = "exit" => (pc' = "exit" /\ messages' = messages
                         /\ requests' = requests /\ reads' = reads)
    ]_vars

C6_Witness ==
  /\ pc = "exit" /\ status = "ok" /\ reads >= 1
  /\ last_input = <<" ", "Q", "u", "i", "t", " ", "\r", "\n">>

\* C7: empty input.  A line that is empty once trimmed leaves the history
\* unchanged, posts no request and returns to the prompt.
C7_EmptyInput ==
  [][ (pc = "input" /\ reads' = reads + 1 /\ last_input' \in EmptyInputs)
        => (pc' = "input" /\ status' = status
            /\ messages' = messages /\ requests' = requests)
    ]_vars

C7_Witness ==
  pc = "input" /\ reads >= 1 /\ last_input = <<" ", "\t", "\n">>

\* C8: full-history replay.  A chat request carries the whole history as it
\* is when the request is posted: the system message first, every message
\* in order, the user message of this turn last, appended before the
\* request is posted.  An assistant message is appended only when the
\* reply's stream has ended, and the history changes in no other way.
C8_FullHistoryReplay ==
  [][ /\ (chat /\ requests' # requests)
         => /\ requests' = Append(requests, Last(requests'))
            /\ Last(requests').messages = messages'
            /\ Last(requests').endpoint = "/api/chat"
            /\ messages'[1].role = "system"
            /\ Last(messages').role = "user"
            /\ messages # <<>> => messages' = Append(messages, Last(messages'))
      /\ (chat /\ messages' # messages /\ requests' = requests)
         => /\ pc = "stream" /\ wire = <<>>
            /\ messages' = Append(messages, Last(messages'))
            /\ Last(messages').role = "assistant"
            /\ Last(requests).messages = messages
    ]_vars

C8_Witness ==
  /\ chat /\ pc = "connect" /\ Len(requests) = 2
  /\ Last(requests).messages = messages /\ Len(messages) = 4

\* C9: a transport failure is fatal.  When send or a chunk read fails the
\* program leaves main with the error: the failing step appends nothing,
\* and afterwards no input is read, no request posted, no message appended.
C9_TransportFailureFatal ==
  [][ /\ (status # "err" /\ status' = "err")
         => (pc' = "exit" /\ messages' = messages
             /\ requests' = requests /\ reads' = reads)
      /\ status = "err"
         => (pc' = "exit" /\ status' = "err" /\ messages' = messages
             /\ requests' = requests /\ reads' = reads)
    ]_vars

C9_Witness ==
  /\ chat /\ status = "err" /\ pc = "exit"
  /\ Len(requests) = 2 /\ nchunks >= 1 /\ wire # <<>>

\* C10: empty question.  With an empty or whitespace-only question, in
\* either mode, the program prints its message and returns success without
\* posting a request.
C10_EmptyQuestion ==
  prompt \in BlankPrompts
    => /\ requests = <<>>
       /\ pc \in {"main", "exit"}
       /\ pc = "exit" => (status = "ok" /\ stdout = EmptyQuestionMessage)

C10_Witness ==
  prompt = <<" ", "\t">> /\ pc = "exit" /\ status = "ok" /\ requests = <<>>

\* The fragments printed so far in this exchange, in the order printed.
PrintedFragments ==
  LET prints == SelectSeq(trace, LAMBDA e : e.op = "print")
  IN [i \in 1..Len(prints) |-> prints[i].text]

\* The fragments of the lines decoded so far that gave a record, in the
\* order the lines arrived.
ArrivedFragments(chatMode) ==
  LET lines == SelectSeq(trace, LAMBDA e : e.op = "decode"
                                            /\ Decode(chatMode, e.text).ok)
  IN [i \in 1..Len(lines) |-> Decode(chatMode, lines[i].text).content]

\* C11: print consistency.  While a chat exchange streams, the fragments
\* printed so far are the fragments of the records that arrived, in arrival
\* order, each once, and their concatenation is the accumulated text.
C11_PrintConsistency ==
  (chat /\ pc = "stream")
    => /\ PrintedFragments = ArrivedFragments(TRUE)
       /\ PrintedFragments = [i \in 1..Len(records) |-> records[i].content]
       /\ Concat(PrintedFragments) = full_response

C11_Witness ==
  /\ chat /\ pc = "stream" /\ wire # <<>>
  /\ sent \in MalformedBodies(TRUE)
  /\ Len(SelectSeq(trace, LAMBDA e : e.op = "decode")) = 2
  /\ full_response = <<"a">>

\* C12: flush ordering.  In both modes every print of a fragment is followed
\* at once by a flush, before any other line is decoded, any other fragment
\* printed or the next chunk awaited: no fragment is left unflushed when
\* the loop goes on.
C12_FlushOrdering ==
  \A i \in 1..Len(trace) :
    trace[i].op = "print"
      => (i < Len(trace) /\ trace[i + 1].op = "flush")

C12_Witness ==
  /\ ~chat /\ pc = "stream"
  /\ Len(SelectSeq(trace, LAMBDA e : e.op = "print")) = 2
  /\ Len(SelectSeq(trace, LAMBDA e : e.op = "flush")) = 2

\* A loop that starts with nothing pending and nothing accumulated.
NothingCarried ==
  [buffer |-> <<>>, full_response |-> <<>>, printed |-> <<>>,
   records |-> <<>>, trace |-> <<>>]

\* C13: determinism and per-exchange scoping.  In every exchange of a
\* session, the first or a later one, the pending buffer, the accumulated
\* text and the output are what the chunks of this exchange alone give to a
\* loop that starts empty; the assistant message of a turn holds the text
\* its own chunk sequence gives, whatever came before.
C13_PerExchangeScoping ==
  [][ \A script \in Scripts(chat) :
        /\ (pc' = "stream" /\ sent' = Concat(script))
           => /\ nchunks' <= Len(script)
              /\ [buffer |-> buffer', full_response |-> full_response',
                  printed |-> printed', records |-> records',
                  trace |-> trace']
                   = FeedAll(chat, NothingCarried, SubSeq(script, 1, nchunks'))
        /\ (chat /\ pc = "stream" /\ pc' = "input" /\ sent = Concat(script))
           => messages' =
                Append(messages,
                       [role |-> "assistant",
                        content |-> FeedAll(TRUE, NothingCarried,
                                            script).full_response])
    ]_vars

\* Two successive turns received the same chunks and gave the same text.
C13_Witness ==
  /\ chat /\ pc = "input" /\ Len(messages) = 5
  /\ messages[3].content = Hello
  /\ messages[5].content = Hello
  /\ sent = Concat(RoleChunks(TRUE))

\* A record with done = true has been handled in this exchange.
TerminalSeen == \E i \in 1..Len(records) : records[i].done

\* C14 (as claimed): stop at the terminal record.  Once a record with
\* done = true has been handled, no step of the exchange decodes another
\* line, whether it was in the buffer already or comes with a later chunk,
\* and none prints or accumulates anything more.
C14_StopAtTerminalRecord ==
  [][ (pc = "stream" /\ TerminalSeen)
        => /\ records' = records
           /\ printed' = printed
           /\ trace' = trace
           /\ (pc' = "stream" => full_response' = full_response)
    ]_vars

\* C15 (as claimed): pending buffer invariant.  Whenever the loop awaits
\* the next chunk the pending buffer holds no newline character.
C15_NoNewlinePending ==
  pc = "stream" => FindNewline(buffer) = 0

\* A body whose last record, with done = true, has no newline after it.
UnterminatedBody(chatMode) ==
  RecordLine(chatMode, <<"a">>, FALSE) \o NL
    \o RecordLine(chatMode, <<"b">>, TRUE)

\* C16: the unterminated tail is discarded.  When the stream ends with text
\* in the buffer that no newline ends, the step decodes, prints and
\* accumulates nothing, also when the text is a whole record with
\* done = true, and the exchange completes normally: the chat goes to its
\* prompt with the text accumulated before, one-shot mode returns Ok.
C16_TailDiscarded ==
  [][ (pc = "stream" /\ pc' # "stream"
       /\ buffer # <<>> /\ FindNewline(buffer) = 0)
        => /\ records' = records
           /\ printed' = printed
           /\ trace' = trace
           /\ \A i \in 1..Len(trace) : trace[i].text # buffer
           /\ status' # "err"
           /\ pc' = IF chat THEN "input" ELSE "exit"
           /\ chat => messages' = Append(messages,
                                         [role |-> "assistant",
                                          content |-> full_response])
    ]_vars

C16_Witness ==
  /\ pc \in {"input", "exit"}
  /\ sent = UnterminatedBody(chat)
  /\ records = << [content |-> <<"a">>, done |-> FALSE] >>
  /\ printed = <<"a">>
  /\ nchunks = 2

\* C17 (as claimed): user messages are trimmed.  Every user message of the
\* history, the first one built from the command-line prompt included, holds
\* its input without leading and trailing whitespace and is not empty.
C17_UserMessagesTrimmed ==
  chat =>
    /\ Len(messages) >= 2 => messages[2].content = Trim(prompt)
    /\ \A i \in 1..Len(messages) :
         messages[i].role = "user"
           => /\ messages[i].content = Trim(messages[i].content)
              /\ messages[i].content # <<>>

\* C18 (as claimed): the exit test applies to every input of a chat
\* session, the command-line prompt included: no request is ever posted
\* whose newest user message is an exit keyword, and a prompt that is an
\* exit keyword ends the session with no request and no history.
C18_ExitOnEveryInput ==
  chat =>
    /\ \A i \in 1..Len(requests) :
         ~ IsExitKeyword(Last(requests[i].messages).content)
    /\ IsExitKeyword(Trim(prompt)) => (requests = <<>> /\ messages = <<>>)

\* s is a prefix of t.
IsPrefix(s, t) == Len(s) <= Len(t) /\ SubSeq(t, 1, Len(s)) = s

\* C19: the history is append-only.  Every step of a chat session leaves
\* the history as it was or adds messages at its end: none is removed,
\* moved or changed, so the history of any earlier point is a prefix of the
\* history of any later one, and so is the copy every request carried.
C19_HistoryAppendOnly ==
  [][ chat => /\ IsPrefix(messages, messages')
              /\ \A i \in 1..Len(requests') :
                   IsPrefix(requests'[i].messages, messages')
    ]_vars

C19_Witness ==
  /\ chat /\ pc = "stream" /\ nchunks >= 1
  /\ Len(messages) = 4 /\ Len(requests) = 2
  /\ requests[1].messages = SubSeq(messages, 1, 2)
  /\ messages[3].role = "assistant" /\ messages[3].content # <<>>

\* What the loop did, without the text of the lines and of the completing
\* newlines: which lines were decoded, which gave a fragment, which
\* fragment, where the loop was left.
Shape(tr) ==
  [k \in 1..Len(tr) |->
     IF tr[k].op = "print" THEN tr[k] ELSE Event(tr[k].op, <<>>)]

\* The output the events of a loop make.
OutputOf(tr) ==
  LET out == SelectSeq(tr, LAMBDA e : e.op \in {"print", "println"})
  IN Concat([k \in 1..Len(out) |-> out[k].text])

\* The loop of the other mode on the first n chunks of a chunk sequence in
\* the other mode's shape.
OtherMode(script, n) ==
  FeedAll(~chat, NothingCarried, SubSeq(script, 1, n))

Consumed ==
  SubSeq(Concat(wire), 1, Len(Concat(wire)) - Len(Concat(wire')))

\* The step takes a chunk that ends inside a multi-byte character: what
\* stays on the wire starts with a continuation byte.
CutInsideCharacter ==
  /\ pc = "stream" /\ nchunks' = nchunks + 1
  /\ wire' # <<>> /\ Head(Head(wire')) \in ContBytes

\* C21: encoding anomalies are absorbed.  A chunk that ends inside a
\* multi-byte character raises no error and does not end the exchange: the
\* truncated character goes to the buffer as the placeholder U+FFFD, no
\* raw byte does, and streaming goes on; the exchange of a well-formed
\* body ends normally with every line decoded, whatever the cuts.
C21_EncodingAnomalyAbsorbed ==
  [][ /\ CutInsideCharacter
         => /\ pc' = "stream" /\ status' = status
            /\ Last(FromUtf8Lossy(Consumed)) = REPLACEMENT
            /\ buffer' # <<>> /\ Last(buffer') = REPLACEMENT
            /\ \A k \in 1..Len(buffer') :
                 buffer'[k] \notin Lead2Bytes \cup Lead3Bytes \cup ContBytes
      /\ (pc = "stream" /\ pc' # "stream" /\ sent \in WellFormedBodies(chat))
         => /\ status' # "err"
            /\ pc' = IF chat THEN "input" ELSE "exit"
            /\ Len(records') = Len(SelectSeq(sent, LAMBDA c : c = "\n"))
            /\ Last(records').done
            /\ \A r \in 1..Len(records') : \A k \in 1..Len(records'[r].content) :
                 records'[r].content[k]
                   \notin Lead2Bytes \cup Lead3Bytes \cup ContBytes
    ]_vars

C21_Witness ==
  /\ pc \in {"input", "exit"} /\ status # "err"
  /\ sent = WellFormedBody(chat, << <<"a">>, EuroBytes \o <<"b">> >>)
  /\ nchunks = 3
  /\ records = << [content |-> <<"a">>, done |-> FALSE],
                  [content |-> <<REPLACEMENT, REPLACEMENT, REPLACEMENT, "b">>,
                   done |-> TRUE] >>

\* C22 (as claimed): exit status.  When the program has ended the process
\* returned success, except after a transport error in one-shot mode, where
\* it exits non-zero; after a transport error in chat mode only the loop is
\* over and the process returned success.
C22_ExitStatus ==
  pc = "exit"
    => status = IF transport = "failed" /\ ~chat THEN "err" ELSE "ok"

\* C22 (amended): when the program has ended by an exit keyword, by the end
\* of the one-shot exchange or by the rejection of an empty question, the
\* process returned success; when it has ended by a transport error it
\* exits non-zero, in one-shot and in chat mode alike.
C22_ExitStatusByCause ==
  pc = "exit"
    => /\ status = IF transport = "failed" THEN "err" ELSE "ok"
       /\ transport = "up"
            => \/ IsBlank(prompt) /\ requests = <<>>
               \/ ~chat /\ Len(requests) = 1
               \/ chat /\ reads >= 1 /\ IsExitKeyword(Trim(last_input))

C22_Witness ==
  /\ chat /\ pc = "exit" /\ transport = "failed" /\ status = "err"
  /\ reads = 1 /\ Len(messages) = 4 /\ nchunks = 0

\* C23 (as claimed): an assistant message needs a terminal record.  When the
\* chat is back at its prompt with an assistant message as the newest of
\* the history, the exchange that ended had a record with done = true; an
\* exchange without one appends nothing.
C23_AssistantOnlyWhenDone ==
  (chat /\ pc = "input" /\ Last(messages).role = "assistant")
    => TerminalSeen

\* C24 (as claimed): the chat ends at the end of input.  A step in which
\* read_line returns no bytes, as it does once standard input is exhausted,
\* takes the loop to its end; it does not prompt again.
C24_TerminatesAtEndOfInput ==
  [][ (pc = "input" /\ reads' = reads + 1 /\ last_input' = <<>>)
        => (pc' = "exit" /\ stdout' # stdout \o PromptSymbol)
    ]_vars

-----------------------------------------------------------------------------
\* The task store: `add`, `done` and `remove`, each a whole run of the
\* program that loads tasks.json, changes the list and saves it.

\* The largest value of `id: u8`.
U8_MAX == 255

K_id == <<"i", "d">>
K_description ==
  <<"d", "e", "s", "c", "r", "i", "p", "t", "i", "o", "n">>
K_completed == <<"c", "o", "m", "p", "l", "e", "t", "e", "d">>

DigitChars == <<"0", "1", "2", "3", "4", "5", "6", "7", "8", "9">>

RECURSIVE ToDecimal(_)
\* A number as `{}` and serde_json write it: decimal, no leading zero.
ToDecimal(n) ==
  IF n < 10 THEN <<DigitChars[n + 1]>>
  ELSE Append(ToDecimal(n \div 10), DigitChars[(n % 10) + 1])

DigitValue(c) == CHOOSE d \in 0..9 : DigitChars[d + 1] = c

RECURSIVE FromDecimal(_)
\* The number a sequence of digits writes.
FromDecimal(ds) ==
  IF ds = <<>> THEN 0
  ELSE 10 * FromDecimal(SubSeq(ds, 1, Len(ds) - 1)) + DigitValue(ds[Len(ds)])

\* A JSON value as a u8: a number without sign that is at most U8_MAX.
DecodeU8(val) ==
  IF /\ val.t = "num"
     /\ val.v[1] # "-"
     /\ Len(val.v) <= 3
     /\ FromDecimal(val.v) <= U8_MAX
  THEN [ok |-> TRUE, v |-> FromDecimal(val.v)]
  ELSE [ok |-> FALSE, v |-> 0]

\* The values of a Task's three fields, or <<>>: an object gives each key
\* once, an array gives them in order.
TaskFields(val) ==
  IF val.t = "obj" THEN
    LET a == FieldValues(val, K_id)
        b == FieldValues(val, K_description)
        c == FieldValues(val, K_completed)
    IN IF Len(a) = 1 /\ Len(b) = 1 /\ Len(c) = 1
       THEN <<a[1], b[1], c[1]>> ELSE <<>>
  ELSE IF val.t = "arr" /\ Len(val.v) = 3 THEN val.v
  ELSE <<>>

NoTask == [id |-> 0, description |-> <<>>, completed |-> FALSE]

\* A Task from the values of its three fields.
TaskOf(f) ==
  IF f # <<>> /\ f[1].t = "num" /\ f[2].t = "str" /\ f[3].t = "bool"
  THEN LET id == DecodeU8(f[1])
       IN IF id.ok
          THEN [ok |-> TRUE,
                task |-> [id |-> id.v, description |-> f[2].v,
                          completed |-> f[3].v]]
          ELSE [ok |-> FALSE, task |-> NoTask]
  ELSE [ok |-> FALSE, task |-> NoTask]

\* `Task` as #[derive(Deserialize)] reads it.
DecodeTask(val) == TaskOf(TaskFields(val))

\* serde_json::from_str::<Vec<Task>> on a parsed document.
TasksOfDoc(doc) ==
  IF doc.ok /\ doc.val.t = "arr"
  THEN LET read == [n \in 1..Len(doc.val.v) |-> DecodeTask(doc.val.v[n])]
       IN IF \A n \in 1..Len(read) : read[n].ok
          THEN [ok |-> TRUE, tasks |-> [n \in 1..Len(read) |-> read[n].task]]
          ELSE [ok |-> FALSE, tasks |-> <<>>]
  ELSE [ok |-> FALSE, tasks |-> <<>>]

\* load_tasks: the list in the file; the empty list when there is no file
\* or its text is not a list of tasks.
load_tasks(f) ==
  IF f.exists
  THEN LET read == TasksOfDoc(ParseDocument(f.data))
       IN IF read.ok THEN read.tasks ELSE <<>>
  ELSE <<>>

BoolText(b) ==
  IF b THEN <<"t", "r", "u", "e">> ELSE <<"f", "a", "l", "s", "e">>

\* One field of a task in the pretty form: four spaces, key, ": ", value.
PrettyField(key, text) ==
  <<" ", " ", " ", " ">> \o JsonString(key) \o <<":", " ">> \o text

\* One task in the pretty form, indented by two spaces.
PrettyTask(t) ==
  <<" ", " ", "{", "\n">>
    \o PrettyField(K_id, ToDecimal(t.id)) \o <<",", "\n">>
    \o PrettyField(K_description, JsonString(t.description)) \o <<",", "\n">>
    \o PrettyField(K_completed, BoolText(t.completed))
    \o <<"\n", " ", " ", "}">>

RECURSIVE PrettyElements(_)
\* The tasks in the pretty form, ",\n" between them.
PrettyElements(tasks) ==
  IF Len(tasks) = 1 THEN PrettyTask(tasks[1])
  ELSE PrettyTask(tasks[1]) \o <<",", "\n">> \o PrettyElements(Tail(tasks))

\* serde_json::to_string_pretty of a Vec<Task>.
to_string_pretty(tasks) ==
  IF tasks = <<>> THEN <<"[", "]">>
  ELSE <<"[", "\n">> \o PrettyElements(tasks) \o <<"\n", "]">>

\* save_tasks: the file after the list was written to it.
save_tasks(tasks) == [exists |-> TRUE, data |-> to_string_pretty(tasks)]

\* `tasks.iter().map(|t| t.id).max().unwrap_or(0)`.
MaxId(tasks) ==
  IF tasks = <<>> THEN 0
  ELSE CHOOSE m \in {tasks[n].id : n \in 1..Len(tasks)} :
         \A n \in 1..Len(tasks) : tasks[n].id <= m

\* get_next_id: the outcomes of `max + 1` in u8. A sum above U8_MAX
\* overflows: the program panics where overflow checks are compiled in and
\* gets the sum modulo 2^8 where they are not.
get_next_id(tasks) ==
  IF MaxId(tasks) + 1 <= U8_MAX
  THEN {[panicked |-> FALSE, id |-> MaxId(tasks) + 1]}
  ELSE {[panicked |-> TRUE, id |-> 0],
        [panicked |-> FALSE, id |-> (MaxId(tasks) + 1) % (U8_MAX + 1)]}

\* The descriptions and ids the user gives on the command line.
Descriptions == { <<"t">> }
IdArgs(tasks) == {tasks[n].id : n \in 1..Len(tasks)} \cup {0}

\* The longest list `add` is run on.
MaxTasks == 2

\* The messages of the three commands, as println! writes them.
AddedMessage(task) ==
  <<"u2705", " ", " ", "A", "d", "d", "i", "n", "g", " ", "t", "a", "s", "k",
    ":", " ">> \o task \o NL
MarkedMessage(id) ==
  <<"u2714", "uFE0F", " ", " ", "M", "a", "r", "k", "e", "d", " ", "t", "a",
    "s", "k", " ", "#">> \o ToDecimal(id)
    \o <<" ", "a", "s", " ", "d", "o", "n", "e">> \o NL
RemovedMessage(id) ==
  <<"u1F5D1", "uFE0F", " ", " ", "R", "e", "m", "o", "v", "e", "d", " ", "t",
    "a", "s", "k", " ", "#">> \o ToDecimal(id) \o NL
NotFoundMessage(id) ==
  <<"u274C", " ", "T", "a", "s", "k", " ", "#">> \o ToDecimal(id)
    \o <<" ", "n", "o", "t", " ", "f", "o", "u", "n", "d">> \o NL

\* What a run of a task command leaves alone.
askVars ==
  << prompt, chat, messages, requests, streamVars, reads, last_input,
     transport >>

\* The list after `tasks.push(new_task)`.
Pushed(tasks, id, task) ==
  Append(tasks, [id |-> id, description |-> task, completed |-> FALSE])

\* `doit add <task>`: one run of main with Commands::Add.
Add(task) ==
  /\ pc \in {"main", "exit"}
  /\ LET tasks == load_tasks(file)
     IN /\ Len(tasks) < MaxTasks
        /\ \E next \in get_next_id(tasks) :
             IF next.panicked
             THEN /\ status' = "panic"
                  /\ stdout' = <<>>
                  /\ UNCHANGED file
             ELSE /\ file' = save_tasks(Pushed(tasks, next.id, task))
                  /\ stdout' = AddedMessage(task)
                  /\ status' = "ok"
  /\ command' = "add"
  /\ pc' = "exit"
  /\ UNCHANGED askVars

\* The list after `task.completed = true` on the first task with this id.
Completed(tasks, id) ==
  LET n == CHOOSE k \in 1..Len(tasks) :
             /\ tasks[k].id = id
             /\ \A j \in 1..(k - 1) : tasks[j].id # id
  IN [tasks EXCEPT ![n].completed = TRUE]

\* `doit done <id>`: one run of main with Commands::Done.
Done(id) ==
  /\ pc \in {"main", "exit"}
  /\ LET tasks == load_tasks(file)
     IN IF \E n \in 1..Len(tasks) : tasks[n].id = id
        THEN /\ file' = save_tasks(Completed(tasks, id))
             /\ stdout' = MarkedMessage(id)
        ELSE /\ stdout' = NotFoundMessage(id)
             /\ UNCHANGED file
  /\ command' = "done"
  /\ status' = "ok"
  /\ pc' = "exit"
  /\ UNCHANGED askVars

\* The list after `tasks.retain(|t| t.id != id)`.
Retained(tasks, id) == SelectSeq(tasks, LAMBDA t : t.id # id)

\* `doit remove <id>`: one run of main with Commands::Remove.
Remove(id) ==
  /\ pc \in {"main", "exit"}
  /\ LET tasks == load_tasks(file)
     IN IF Len(Retained(tasks, id)) < Len(tasks)
        THEN /\ file' = save_tasks(Retained(tasks, id))
             /\ stdout' = RemovedMessage(id)
        ELSE /\ stdout' = NotFoundMessage(id)
             /\ UNCHANGED file
  /\ command' = "remove"
  /\ status' = "ok"
  /\ pc' = "exit"
  /\ UNCHANGED askVars

\* No command was given yet and the task list is empty: there is no
\* tasks.json, or it holds "[]".
TasksInit ==
  /\ command = ""
  /\ prompt = <<>>
  /\ chat = FALSE
  /\ file \in {NoFile, [exists |-> TRUE, data |-> EmptyArrayText]}
  /\ pc = "main"
  /\ status = "running"
  /\ messages = <<>>
  /\ requests = <<>>
  /\ wire = <<>>
  /\ buffer = <<>>
  /\ full_response = <<>>
  /\ stdout = <<>>
  /\ reads = 0
  /\ last_input = <<>>
  /\ sent = <<>>
  /\ printed = <<>>
  /\ records = <<>>
  /\ nchunks = 0
  /\ trace = <<>>
  /\ transport = "up"

TasksNext ==
  \/ \E task \in Descriptions : Add(task)
  \/ \E id \in IdArgs(load_tasks(file)) : Done(id)
  \/ \E id \in IdArgs(load_tasks(file)) : Remove(id)

SpecTasks == TasksInit /\ [][TasksNext]_vars

\* The ids of a list, in order.
Ids(tasks) == [n \in 1..Len(tasks) |-> tasks[n].id]

\* C25: after any sequence of add, done and remove from an empty task list
\* the ids in the list are pairwise distinct, and every run of add ends
\* with one more task whose id is greater than every id that was in the
\* list, also when the largest of them is 255.
C25_IdsDistinctAndIncreasing ==
  [][ \A before \in {Ids(load_tasks(file))} :
        \A after \in {Ids(load_tasks(file'))} :
          /\ \A m, n \in 1..Len(after) : after[m] = after[n] => m = n
          /\ command' = "add" =>
               /\ status' = "ok"
               /\ Len(after) = Len(before) + 1
               /\ SubSeq(after, 1, Len(before)) = before
               /\ \A n \in 1..Len(before) : after[Len(after)] > before[n]
    ]_vars

=============================================================================
